---- MODULE Spec2Model ----
(***************************************************************************)
(* CBIR pipeline: representative-embedding selection (the generation       *)
(* notebooks), the FAISS flat L2 index, per-query retrieval evaluation     *)
(* (Evaluation_DINO.ipynb), the cluster diagnostics, the classification   *)
(* of identifiers, and the comparison notebook: its retrieval function     *)
(* and its master evaluation table.                                        *)
(*                                                                         *)
(* Conventions.  An image identifier is a sequence of one-character        *)
(* strings, so that split('_'), str.startswith and the regular expressions *)
(* are computed character by character.  A vector is a tuple of integers;  *)
(* distances and norms are kept squared (the square root is monotone, so   *)
(* every comparison and every argmax is the same).  Table positions are    *)
(* 0-based as in the code: position p of an array is element p+1 of the    *)
(* TLA+ sequence, and a negative position counts from the end (numpy and   *)
(* DataFrame.iloc).                                                        *)
(***************************************************************************)
EXTENDS Integers, Sequences, FiniteSets

VARIABLES
    \* ---- evaluation session (Evaluation_DINO.ipynb) ----
    pc,                      \* which cell of the notebook has run
    image_files,             \* np.load('image_files_*.npy')
    embeddings,              \* np.load('embeddings_*.npy')
    df,                      \* the DataFrame of Step 4 / Step 5.1
    index,                   \* the vectors held by the faiss index
    matches_images,          \* the query list of Step 7
    qpos,                    \* the for-loop position of Step 11
    query_image_name,
    query_idx,
    distances,               \* distances, indices = index.search(...)
    indices,
    retrieved_indices,
    retrieved_images,
    num_matches_found,
    total_available_matches,
    match_accuracy,
    evaluation_results,
    evaluation_dfs,          \* the evaluation_df of every run of Step 11
    \* ---- comparison notebook: retrieve_images_for_model ----
    rim,
    \* ---- generation notebooks: Step 6 ----
    original_image_files,
    aug_embeddings,
    data_groups,
    gpos,
    selected_embeddings,
    selected_image_files,
    \* ---- generation notebooks: Step 5 ----
    augmented_df,            \* the mapping, each row with the model's output
    batch_size,
    start_idx,               \* the for-loop position of Step 5
    \* ---- cluster diagnostics: Steps 8 and 9 ----
    num_clusters,
    cluster_labels,
    sil_score,
    \* ---- comparison notebook: Steps 2 and 3 ----
    model_data,              \* per model, its evaluation_df
    master_df,
    mpos,                    \* the for-loop position of Step 3
    \* ---- the classification of one identifier ----
    classified_name,
    classified_source,       \* determine_source(classified_name)
    classified_prefix,       \* classified_name.split('_')[0]
    classified_match_set     \* get_match_set(classified_name)

evalVars == <<pc, image_files, embeddings, df, index, matches_images, qpos,
              query_image_name, query_idx, distances, indices,
              retrieved_indices, retrieved_images, num_matches_found, total_available_matches, match_accuracy,
              evaluation_results, evaluation_dfs, rim>>
genVars == <<augmented_df, batch_size, start_idx>>
selVars == <<original_image_files, aug_embeddings, data_groups, gpos,
             selected_embeddings, selected_image_files, genVars>>
diagVars == <<num_clusters, cluster_labels, sil_score>>
aggVars == <<model_data, master_df, mpos>>
clsVars == <<classified_name, classified_source, classified_prefix,
             classified_match_set>>
auxVars == <<diagVars, aggVars, clsVars>>
vars == <<evalVars, selVars, auxVars>>

-----------------------------------------------------------------------------
(* Bounds of the model *)

MaxN == 3          \* rows of an Embedding Table
MaxTopK == 3       \* top_k passed by a caller of the retrieval functions
MaxRows == 3       \* rows of the Augmentation Mapping

-----------------------------------------------------------------------------
(* Identifiers *)

F_004_03 == <<"0","0","4","_","0","3",".","j","p","g">>
F_100_01 == <<"1","0","0","_","0","1",".","j","p","g">>
F_100_02 == <<"1","0","0","_","0","2",".","j","p","g">>
F_100_03 == <<"1","0","0","_","0","3",".","j","p","g">>
F_1001_01 == <<"1","0","0","1","_","0","1",".","j","p","g">>
F_a1b2c3 == <<"a","1","b","2","c","3",".","j","p","g">>

Pool == {F_004_03, F_100_01, F_100_02, F_100_03, F_1001_01, F_a1b2c3}

Digits == {"0","1","2","3","4","5","6","7","8","9"}

\* Code point of a character (Python compares str by code point).
Ord(c) ==
    CASE c = "." -> 46
      [] c = "0" -> 48 [] c = "1" -> 49 [] c = "2" -> 50 [] c = "3" -> 51
      [] c = "4" -> 52 [] c = "5" -> 53 [] c = "6" -> 54 [] c = "7" -> 55
      [] c = "8" -> 56 [] c = "9" -> 57
      [] c = "_" -> 95
      [] c = "a" -> 97 [] c = "b" -> 98 [] c = "c" -> 99
      [] c = "g" -> 103 [] c = "j" -> 106 [] c = "p" -> 112

\* s < t for Python strings.
StrLess(s, t) ==
    \E i \in 1..(Len(s) + 1) :
        /\ i <= Len(t)
        /\ \A j \in 1..(i - 1) : s[j] = t[j]
        /\ \/ i = Len(s) + 1
           \/ (i <= Len(s) /\ Ord(s[i]) < Ord(t[i]))

\* The elements of a set of strings in ascending order.
RECURSIVE SortedSeq(_)
SortedSeq(S) ==
    IF S = {} THEN <<>>
    ELSE LET m == CHOOSE x \in S : \A y \in S \ {x} : StrLess(x, y)
         IN  <<m>> \o SortedSeq(S \ {m})

\* str.startswith
StartsWith(s, p) == Len(p) <= Len(s) /\ SubSeq(s, 1, Len(p)) = p

\* s.split('_')[0]: the text before the first underscore, all of s when
\* there is none.
SplitFirst(s) ==
    LET us == {i \in 1..Len(s) : s[i] = "_"}
    IN  IF us = {} THEN s
        ELSE SubSeq(s, 1, (CHOOSE i \in us : \A j \in us : i <= j) - 1)

AllDigits(s) == \A i \in 1..Len(s) : s[i] \in Digits

DotJpg == <<".","j","p","g">>

\* re.match(r'^\d{n}_\d{2}\.jpg$', s)
MatchesFixed(s, n) ==
    /\ Len(s) = n + 7
    /\ AllDigits(SubSeq(s, 1, n))
    /\ s[n + 1] = "_"
    /\ AllDigits(SubSeq(s, n + 2, n + 3))
    /\ SubSeq(s, n + 4, n + 7) = DotJpg

\* re.search in place of re.match: the pattern found anywhere in the name.
determine_source_Search(image_name) ==
    IF \E i \in 1..Len(image_name) :
          \/ MatchesFixed(SubSeq(image_name, i, Len(image_name)), 3)
          \/ MatchesFixed(SubSeq(image_name, i, Len(image_name)), 4)
    THEN "matches"
    ELSE "pubmed"

determine_source(image_name) ==
    IF MatchesFixed(image_name, 3) THEN "matches"
    ELSE IF MatchesFixed(image_name, 4) THEN "matches"
    ELSE "pubmed"

\* re.match(r'^(\d+)_\d+\.jpg$', s): group(1), or 'pubmed'.
get_match_set(image_name) ==
    LET g == SplitFirst(image_name)
        rest == SubSeq(image_name, Len(g) + 2, Len(image_name))
    IN  IF /\ Len(g) >= 1
           /\ Len(g) < Len(image_name)
           /\ AllDigits(g)
           /\ Len(rest) >= 5
           /\ AllDigits(SubSeq(rest, 1, Len(rest) - 4))
           /\ SubSeq(rest, Len(rest) - 3, Len(rest)) = DotJpg
        THEN g
        ELSE <<"p","u","b","m","e","d">>

-----------------------------------------------------------------------------
(* Arrays *)

\* a[i] of a numpy array or list, df.iloc[i] of a DataFrame: 0-based, a
\* negative position counts from the end.
Iloc(a, i) == IF i >= 0 THEN a[i + 1] ELSE a[Len(a) + i + 1]

\* A set of positions as an ascending list.
RECURSIVE SeqOfSet(_)
SeqOfSet(S) ==
    IF S = {} THEN <<>>
    ELSE LET m == CHOOSE x \in S : \A y \in S : x <= y
         IN  <<m>> \o SeqOfSet(S \ {m})

\* Series.unique(): the distinct values in order of first appearance.
RECURSIVE Unique(_)
Unique(s) ==
    IF s = <<>> THEN <<>>
    ELSE LET r == Unique(SubSeq(s, 1, Len(s) - 1))
             x == s[Len(s)]
         IN  IF \E j \in 1..Len(r) : r[j] = x THEN r ELSE Append(r, x)

-----------------------------------------------------------------------------
(* The faiss flat L2 index *)

UnitVectors == {<<1, 0>>, <<0, 1>>, <<-1, 0>>}

\* The inner product in place of the squared L2 distance (IndexFlatIP).
L2sqr_InnerProduct(x, y) == x[1] * y[1] + x[2] * y[2]

L2sqr(x, y) ==
    (x[1] - y[1]) * (x[1] - y[1]) + (x[2] - y[2]) * (x[2] - y[2])

\* Distance reported with the label -1 when fewer than k vectors exist.
PadDistance == 1000000

\* A new entry placed before the entries at its own distance.
HeapInsert_TiesFirst(res, e) ==
    LET n == Cardinality({j \in 1..Len(res) : res[j][1] < e[1]})
    IN  SubSeq(res, 1, n) \o <<e>> \o SubSeq(res, n + 1, Len(res))

\* The result heap, kept as a list sorted by distance: a new entry goes
\* after the entries that are not farther than it.
HeapInsert(res, e) ==
    LET n == Cardinality({j \in 1..Len(res) : res[j][1] <= e[1]})
    IN  SubSeq(res, 1, n) \o <<e>> \o SubSeq(res, n + 1, Len(res))

\* One scanned vector: it enters only when strictly nearer than the
\* farthest entry held, which then drops out.
AddResult(res, e) ==
    IF e[1] < res[Len(res)][1]
    THEN SubSeq(HeapInsert(res, e), 1, Len(res))
    ELSE res

RECURSIVE Scan(_, _, _, _)
Scan(xb, q, res, i) ==
    IF i >= Len(xb) THEN res
    ELSE Scan(xb, q, AddResult(res, <<L2sqr(q, xb[i + 1]), i>>), i + 1)

\* index.search(q, k) for one query: k pairs <<distance, label>>.
IndexSearch(xb, q, k) ==
    Scan(xb, q, [j \in 1..k |-> <<PadDistance, -1>>], 0)

Labels(res) == [j \in 1..Len(res) |-> res[j][2]]
Distances(res) == [j \in 1..Len(res) |-> res[j][1]]

-----------------------------------------------------------------------------
(* Evaluation_DINO.ipynb *)

\* top_k=10: the default of retrieve_and_display, the value its call passes,
\* and the literal of the Step 11 search.
DefaultTopK == 10

TopKs == (1..MaxTopK) \cup {DefaultTopK}

\* augmented_mapping.get(x, x): the keys of the mapping are augmented file
\* names, image_files holds the original names saved by Step 6, so the
\* lookup falls through to its default.
OriginalOf(x) == x

\* Step 4: one row per image file.
MakeDf(files) ==
    [p \in 1..Len(files) |->
        [image_file |-> files[p],
         embedding_index |-> p - 1,
         original_image |-> OriginalOf(files[p]),
         source |-> determine_source(files[p])]]

\* The query list taken from every row, whatever its source.
MatchesImages_AllSources(d) ==
    Unique([j \in 1..Len(d) |-> d[j].original_image])

\* df[df['source'] == 'matches']['original_image'].unique()
MatchesImages(d) ==
    Unique(LET ps == SeqOfSet({p \in 1..Len(d) : d[p].source = "matches"})
           IN  [j \in 1..Len(ps) |-> d[ps[j]].original_image])

\* df[df['original_image'] == name]['embedding_index'].tolist()
QueryIndices(d, name) ==
    LET ps == SeqOfSet({p \in 1..Len(d) : d[p].original_image = name})
    IN  [j \in 1..Len(ps) |-> d[ps[j]].embedding_index]

\* df.iloc[retrieved_indices]
Rows(d, idxs) == [j \in 1..Len(idxs) |-> Iloc(d, idxs[j])]

\* DataFrame.drop_duplicates(): the first occurrence of every row.
DropDuplicates(rows) == Unique(rows)

\* DataFrame.head(n)
HeadRows(rows, n) == SubSeq(rows, 1, IF n < Len(rows) THEN n ELSE Len(rows))

\* The rows retrieve_and_display returns.
RetrieveAndDisplay(d, emb, idx, name, top_k) ==
    LET q_idx == QueryIndices(d, name)[1]
        I == Labels(IndexSearch(idx, Iloc(emb, q_idx), top_k))
        rows == Rows(d, I)
    IN  IF \E j \in 1..Len(I) : I[j] = q_idx
        THEN rows
        ELSE HeadRows(DropDuplicates(<<Iloc(d, q_idx)>> \o rows), top_k)

\* The row test of evaluate_retrieval: the original image name starts with
\* the text before the query's first underscore, and the source is matches.
IsMatchRow(row, name) ==
    /\ StartsWith(row.original_image, SplitFirst(name))
    /\ row.source = "matches"

\* The quotient taken without the test of the denominator.
Accuracy_NoGuard(found, total) == [num |-> found, den |-> total]

Accuracy(found, total) ==
    IF total > 0 THEN [num |-> found, den |-> total] ELSE [num |-> 0, den |-> 1]

evaluate_retrieval(d, name, rows) ==
    LET total == Cardinality({p \in 1..Len(d) : IsMatchRow(d[p], name)})
        found == Cardinality({j \in 1..Len(rows) : IsMatchRow(rows[j], name)})
    IN  [num_matches_found |-> found,
         total_available_matches |-> total,
         match_accuracy |-> Accuracy(found, total)]

EvalInit ==
    /\ pc = "loaded"
    /\ \E S \in SUBSET Pool :
        /\ Cardinality(S) \in 1..MaxN
        /\ image_files = SortedSeq(S)
        /\ embeddings \in [1..Cardinality(S) -> UnitVectors]
    /\ df = <<>>
    /\ index = <<>>
    /\ matches_images = <<>>
    /\ qpos = 0
    /\ query_image_name = <<>>
    /\ query_idx = -1
    /\ distances = <<>>
    /\ indices = <<>>
    /\ retrieved_indices = <<>>
    /\ retrieved_images = <<>>
    /\ num_matches_found = 0
    /\ total_available_matches = 0
    /\ match_accuracy = [num |-> 0, den |-> 1]
    /\ evaluation_results = <<>>
    /\ evaluation_dfs = <<>>
    /\ rim = [called |-> FALSE]

GenIdle ==
    /\ augmented_df = <<>>
    /\ batch_size = 0
    /\ start_idx = 0

SelIdle ==
    /\ GenIdle
    /\ original_image_files = <<>>
    /\ aug_embeddings = <<>>
    /\ data_groups = <<>>
    /\ gpos = 0
    /\ selected_embeddings = <<>>
    /\ selected_image_files = <<>>

DiagIdle ==
    /\ num_clusters = -1
    /\ cluster_labels = <<>>
    /\ sil_score = "unset"

AggIdle ==
    /\ model_data = <<>>
    /\ master_df = <<>>
    /\ mpos = 0

ClsIdle ==
    /\ classified_name = <<>>
    /\ classified_source = "unset"
    /\ classified_prefix = <<>>
    /\ classified_match_set = <<>>

AuxIdle == DiagIdle /\ AggIdle /\ ClsIdle

\* Step 4: Prepare the Dataset.
PrepareDataset ==
    /\ pc = "loaded"
    /\ df' = MakeDf(image_files)
    /\ pc' = "prepared"
    /\ UNCHANGED <<image_files, embeddings, index, matches_images, qpos,
                   query_image_name, query_idx, distances, indices, retrieved_indices,
                   retrieved_images, num_matches_found,
                   total_available_matches, match_accuracy,
                   evaluation_results, evaluation_dfs, rim>>
    /\ UNCHANGED selVars
    /\ UNCHANGED auxVars

\* Only the vectors after the first are added.
IndexAdd_SkipFirst(xb, x) == xb \o SubSeq(x, 2, Len(x))

\* index.add(x): the vectors of x follow those the index holds.
IndexAdd(xb, x) == xb \o x

\* Step 5: index = faiss.IndexFlatL2(d); index.add(embeddings).
BuildIndex ==
    /\ pc = "prepared"
    /\ index' = IndexAdd(<<>>, embeddings)
    /\ pc' = "indexed"
    /\ UNCHANGED <<image_files, embeddings, df, matches_images, qpos,
                   query_image_name, query_idx, distances, indices, retrieved_indices,
                   retrieved_images, num_matches_found,
                   total_available_matches, match_accuracy,
                   evaluation_results, evaluation_dfs, rim>>
    /\ UNCHANGED selVars
    /\ UNCHANGED auxVars

\* Step 7 when the matches set is empty: nothing is queried.
PerformRetrievalNone ==
    /\ pc = "indexed"
    /\ MatchesImages(df) = <<>>
    /\ matches_images' = <<>>
    /\ pc' = "retrieved"
    /\ UNCHANGED <<image_files, embeddings, df, index, qpos,
                   query_image_name, query_idx, distances, indices, retrieved_indices,
                   retrieved_images, num_matches_found,
                   total_available_matches, match_accuracy,
                   evaluation_results, evaluation_dfs, rim>>
    /\ UNCHANGED selVars
    /\ UNCHANGED auxVars

\* Step 7: the user picks a query of the matches set; it is retrieved and
\* evaluated.
PerformRetrieval ==
    /\ pc = "indexed"
    /\ MatchesImages(df) # <<>>
    /\ \E input \in 0..(Len(MatchesImages(df)) - 1), top_k \in TopKs :
        LET name == Iloc(MatchesImages(df), input)
            rows == RetrieveAndDisplay(df, embeddings, index, name, top_k)
            ev == evaluate_retrieval(df, name, rows)
        IN  /\ matches_images' = MatchesImages(df)
            /\ query_idx' = input
            /\ query_image_name' = name
            /\ retrieved_images' = rows
            /\ num_matches_found' = ev.num_matches_found
            /\ total_available_matches' = ev.total_available_matches
            /\ match_accuracy' = ev.match_accuracy
    /\ pc' = "retrieved"
    /\ UNCHANGED <<image_files, embeddings, df, index, qpos,
                   distances, indices, retrieved_indices, evaluation_results,
                   evaluation_dfs, rim>>
    /\ UNCHANGED selVars
    /\ UNCHANGED auxVars

MaxRuns == 2           \* runs of the Step 11 cell

\* The list of an earlier run is kept.
FreshResults_Kept == evaluation_results

\* evaluation_results = []
FreshResults == <<>>

\* Step 11, before the loop, each time the cell is run.
StartEvaluation ==
    /\ pc \in {"retrieved", "clustered", "cluster_failed", "diagnosed", "done"}
    /\ Len(evaluation_dfs) < MaxRuns
    /\ evaluation_results' = FreshResults
    /\ qpos' = 0
    /\ pc' = "evaluating"
    /\ UNCHANGED <<image_files, embeddings, df, index, matches_images,
                   query_image_name, query_idx, distances, indices,
                   retrieved_indices, retrieved_images, num_matches_found,
                   total_available_matches, match_accuracy,
                   evaluation_dfs, rim>>
    /\ UNCHANGED selVars
    /\ UNCHANGED auxVars

\* Step 11: one iteration of the loop over matches_images.
EvaluateQuery ==
    /\ pc = "evaluating"
    /\ qpos < Len(matches_images)
    /\ LET name == Iloc(matches_images, qpos)
           query_indices == QueryIndices(df, name)
       IN  IF query_indices = <<>>
           THEN /\ query_image_name' = name
                /\ UNCHANGED <<query_idx, distances, indices, retrieved_indices, retrieved_images,
                               num_matches_found, total_available_matches,
                               match_accuracy, evaluation_results>>
           ELSE LET q_idx == query_indices[1]
                    res == IndexSearch(index, Iloc(embeddings, q_idx),
                                       DefaultTopK)
                    I == Labels(res)
                    rows == Rows(df, I)
                    ev == evaluate_retrieval(df, name, rows)
                IN  /\ query_image_name' = name
                    /\ query_idx' = q_idx
                    /\ distances' = Distances(res)
                    /\ indices' = I
                    /\ retrieved_indices' = I
                    /\ retrieved_images' = rows
                    /\ num_matches_found' = ev.num_matches_found
                    /\ total_available_matches' = ev.total_available_matches
                    /\ match_accuracy' = ev.match_accuracy
                    /\ evaluation_results' = Append(evaluation_results,
                          [QueriedImage |-> name,
                           NumberOfMatchesFound |-> ev.num_matches_found,
                           TotalAvailableMatches |-> ev.total_available_matches,
                           MatchAccuracy |-> ev.match_accuracy])
    /\ qpos' = qpos + 1
    /\ pc' = "evaluating"
    /\ UNCHANGED <<image_files, embeddings, df, index, matches_images,
                   evaluation_dfs, rim>>
    /\ UNCHANGED selVars
    /\ UNCHANGED auxVars

\* Step 11, after the loop: the results become evaluation_df.
FinishEvaluation ==
    /\ pc = "evaluating"
    /\ qpos = Len(matches_images)
    /\ evaluation_dfs' = Append(evaluation_dfs, evaluation_results)
    /\ pc' = "done"
    /\ UNCHANGED <<image_files, embeddings, df, index, matches_images, qpos,
                   query_image_name, query_idx, distances, indices, retrieved_indices,
                   retrieved_images, num_matches_found,
                   total_available_matches, match_accuracy,
                   evaluation_results, rim>>
    /\ UNCHANGED selVars
    /\ UNCHANGED auxVars

-----------------------------------------------------------------------------
(* The comparison notebook *)

\* top_k=15: the value Step 6.2 passes to retrieve_images_for_model.
CallTopK == 15

CmpTopKs == (1..MaxTopK) \cup {CallTopK}

\* Step 5.1: one row per image file, labelled with its match set.
MakeCmpDf(files) ==
    [p \in 1..Len(files) |->
        [image_file |-> files[p],
         embedding_index |-> p - 1,
         match_set |-> get_match_set(files[p])]]

Pubmed == <<"p","u","b","m","e","d">>

\* matches_df[matches_df['match_set'] != 'pubmed']['image_file'].unique()
CmpMatchesImages(d) ==
    Unique(LET ps == SeqOfSet({p \in 1..Len(d) : d[p].match_set # Pubmed})
           IN  [j \in 1..Len(ps) |-> d[ps[j]].image_file])

\* df[df['image_file'] == name]['embedding_index'].tolist()
CmpQueryIndices(d, name) ==
    LET ps == SeqOfSet({p \in 1..Len(d) : d[p].image_file = name})
    IN  [j \in 1..Len(ps) |-> d[ps[j]].embedding_index]

\* indices[0][1:]
Tail1(s) == SubSeq(s, 2, Len(s))

\* The locals of retrieve_images_for_model when it returns.
retrieve_images_for_model(files, emb, d, name, top_k) ==
    LET query_indices == CmpQueryIndices(d, name)
    IN  IF query_indices = <<>>
        THEN [called |-> TRUE, found_query |-> FALSE]
        ELSE
        LET q_idx == query_indices[1]
            res == IndexSearch(emb, Iloc(emb, q_idx), top_k + 1)
            r_idx == Tail1(Labels(res))
            r_df == Rows(d, r_idx)
            qms == Iloc(d, q_idx).match_set
            found == Cardinality({j \in 1..Len(r_df) : r_df[j].match_set = qms})
            total == Cardinality({p \in 1..Len(d) : d[p].match_set = qms}) - 1
        IN  [called |-> TRUE, found_query |-> TRUE,
             top_k |-> top_k,
             query_idx |-> q_idx,
             search |-> res,
             retrieved_indices |-> r_idx,
             retrieved_images |-> [j \in 1..Len(r_idx) |-> Iloc(files, r_idx[j])],
             num_matches_found |-> found,
             total_available_matches |-> total,
             match_accuracy |-> Accuracy(found, total)]

\* Step 5.1: Prepare Data.
PrepareComparison ==
    /\ pc = "loaded"
    /\ df' = MakeCmpDf(image_files)
    /\ pc' = "cmp_prepared"
    /\ UNCHANGED <<image_files, embeddings, index, matches_images, qpos,
                   query_image_name, query_idx, distances, indices, retrieved_indices,
                   retrieved_images, num_matches_found,
                   total_available_matches, match_accuracy,
                   evaluation_results, evaluation_dfs, rim>>
    /\ UNCHANGED selVars
    /\ UNCHANGED auxVars

\* Step 6.1: the user picks a query of the matches set.
SelectQuery ==
    /\ pc = "cmp_prepared"
    /\ \E input \in 0..(Len(CmpMatchesImages(df)) - 1) :
        /\ matches_images' = CmpMatchesImages(df)
        /\ query_idx' = input
        /\ query_image_name' = Iloc(CmpMatchesImages(df), input)
    /\ pc' = "cmp_selected"
    /\ UNCHANGED <<image_files, embeddings, df, index, qpos,
                   distances, indices, retrieved_indices, retrieved_images, num_matches_found,
                   total_available_matches, match_accuracy,
                   evaluation_results, evaluation_dfs, rim>>
    /\ UNCHANGED selVars
    /\ UNCHANGED auxVars

\* Step 6.2: retrieve_images_for_model(model, query_image_name, top_k).
RetrieveImagesForModel ==
    /\ pc = "cmp_selected"
    /\ \E top_k \in CmpTopKs :
        rim' = retrieve_images_for_model(image_files, embeddings, df,
                                         query_image_name, top_k)
    /\ match_accuracy' = rim'.match_accuracy
    /\ pc' = "cmp_done"
    /\ UNCHANGED <<image_files, embeddings, df, index, matches_images, qpos,
                   query_image_name, query_idx, distances, indices, retrieved_indices,
                   retrieved_images, num_matches_found,
                   total_available_matches, evaluation_results,
                   evaluation_dfs>>
    /\ UNCHANGED selVars
    /\ UNCHANGED auxVars

-----------------------------------------------------------------------------
(* The evaluation and comparison sessions over one saved Embedding Table *)

Init == EvalInit /\ SelIdle /\ AuxIdle


-----------------------------------------------------------------------------
(* Properties of the evaluation and comparison sessions *)

Min(a, b) == IF a <= b THEN a ELSE b

\* The group-id of an identifier: the text before its first underscore.
GroupId(x) == SplitFirst(x)

\* The rows of the table, other than the query's, that are match-set
\* images of the query's group.
Siblings(files, q) ==
    {p \in 1..Len(files) :
        /\ files[p] # q
        /\ determine_source(files[p]) = "matches"
        /\ GroupId(files[p]) = GroupId(q)}

\* evaluate_retrieval has scored query_image_name.
EvalScored ==
    pc \in {"retrieved", "evaluating", "done"} /\ query_image_name # <<>>

\* The Step 11 loop has searched for query_image_name at query_idx.
LoopSearched == pc \in {"evaluating", "done"} /\ indices # <<>>

\* retrieve_images_for_model has scored query_image_name.
CmpScored == pc = "cmp_done" /\ rim.found_query

NonDecreasing(d) == \A j \in 1..(Len(d) - 1) : d[j] <= d[j + 1]

LoopSearch == [j \in 1..Len(indices) |-> <<distances[j], indices[j]>>]

\* C1: for every query, total_available_matches is the number of table
\* images, the query excluded, whose group-id equals the query's group-id.
C1_TotalExcludesQuery ==
    /\ EvalScored =>
          total_available_matches =
              Cardinality(Siblings(image_files, query_image_name))
    /\ CmpScored =>
          rim.total_available_matches =
              Cardinality(Siblings(image_files, query_image_name))

\* C2: an image is counted in num_matches_found and in
\* total_available_matches only if its group-id equals the query's: the
\* counts never exceed the number of rows of the query's own group.
C2_OnlySameGroupCounted ==
    /\ EvalScored =>
          /\ total_available_matches <=
                Cardinality({p \in 1..Len(df) :
                    GroupId(df[p].original_image) = GroupId(query_image_name)})
          /\ num_matches_found <=
                Cardinality({j \in 1..Len(retrieved_images) :
                    GroupId(retrieved_images[j].original_image)
                        = GroupId(query_image_name)})
    /\ CmpScored =>
          /\ rim.total_available_matches + 1 <=
                Cardinality({p \in 1..Len(df) :
                    GroupId(df[p].image_file) = GroupId(query_image_name)})
          /\ rim.num_matches_found <=
                Cardinality({j \in 1..Len(rim.retrieved_images) :
                    GroupId(rim.retrieved_images[j])
                        = GroupId(query_image_name)})

\* C3: match_accuracy is in [0, 1]: whenever total_available_matches > 0,
\* num_matches_found <= total_available_matches, for every table size, every
\* k and every query.
C3_AccuracyInUnitInterval ==
    /\ EvalScored =>
          /\ total_available_matches > 0 =>
                num_matches_found <= total_available_matches
          /\ 0 <= match_accuracy.num /\ match_accuracy.num <= match_accuracy.den
    /\ CmpScored =>
          /\ rim.total_available_matches > 0 =>
                rim.num_matches_found <= rim.total_available_matches
          /\ 0 <= rim.match_accuracy.num
          /\ rim.match_accuracy.num <= rim.match_accuracy.den

\* C4: search(q, k) returns exactly min(k, N) results, sorted by
\* non-decreasing distance, for every index size N and every k.
C4_SearchReturnsMinKN ==
    /\ LoopSearched =>
          /\ Len(indices) = Min(DefaultTopK, Len(index))
          /\ NonDecreasing(distances)
    /\ CmpScored =>
          /\ Len(rim.search) = Min(rim.top_k + 1, Len(embeddings))
          /\ NonDecreasing(Distances(rim.search))

\* res holds, in its first min(k, N) places, the entries of xb nearest to q:
\* each with its own squared distance, in ascending order of distance and,
\* at equal distance, of position; every entry left out comes after the
\* last one kept in that order.
IsKNearest(xb, q, k, res) ==
    LET m == Min(k, Len(xb))
    IN  /\ Len(res) >= m
        /\ \A j \in 1..m :
              /\ res[j][2] \in 0..(Len(xb) - 1)
              /\ res[j][1] = (q[1] - Iloc(xb, res[j][2])[1]) * (q[1] - Iloc(xb, res[j][2])[1])
                            + (q[2] - Iloc(xb, res[j][2])[2]) * (q[2] - Iloc(xb, res[j][2])[2])
        /\ \A j \in 1..(m - 1) :
              \/ res[j][1] < res[j + 1][1]
              \/ (res[j][1] = res[j + 1][1] /\ res[j][2] < res[j + 1][2])
        /\ \A p \in 0..(Len(xb) - 1) :
              (\A j \in 1..m : res[j][2] # p) =>
                  LET dp == (q[1] - Iloc(xb, p)[1]) * (q[1] - Iloc(xb, p)[1])
                          + (q[2] - Iloc(xb, p)[2]) * (q[2] - Iloc(xb, p)[2])
                  IN  \/ dp > res[m][1]
                      \/ (dp = res[m][1] /\ p > res[m][2])

C6_StoredVectorIsTopResult ==
    /\ LoopSearched =>
          /\ distances[1] = 0
          /\ indices[1] \in 0..(Len(index) - 1)
          /\ Iloc(index, indices[1]) = Iloc(embeddings, query_idx)
    /\ CmpScored =>
          /\ rim.search[1][1] = 0
          /\ rim.search[1][2] \in 0..(Len(embeddings) - 1)
          /\ Iloc(embeddings, rim.search[1][2]) = Iloc(embeddings, rim.query_idx)

\* C6 witness: the loop has searched an index of several distinct vectors
\* for a query that is not stored first.
C6_Witness ==
    /\ LoopSearched
    /\ Len(index) >= 2
    /\ query_idx >= 1
    /\ \E p \in 1..Len(index) : index[p] # Iloc(embeddings, query_idx)

\* C7: the neighbor list handed to scoring never contains the query and
\* holds exactly k other images.  Stated for N > k, where every label of the
\* k+1 requested is a table position.
C7_NeighborsExcludeQuery ==
    (CmpScored /\ Len(embeddings) > rim.top_k) =>
        /\ \A j \in 1..Len(rim.retrieved_images) :
              rim.retrieved_images[j] # query_image_name
        /\ Len(rim.retrieved_indices) = rim.top_k
        /\ \A j \in 1..rim.top_k :
              rim.retrieved_indices[j] \in 0..(Len(embeddings) - 1)
        /\ \A i, j \in 1..rim.top_k :
              i # j => rim.retrieved_indices[i] # rim.retrieved_indices[j]

-----------------------------------------------------------------------------
(* The generation notebooks, Step 6: Select Representative Embeddings *)

SelPool == {F_100_01, F_1001_01, F_a1b2c3}

SelVectors == {<<1, 0>>, <<0, 1>>, <<2, 0>>}

\* np.linalg.norm, squared.
NormSq(v) == v[1] * v[1] + v[2] * v[2]

\* One group per row of the mapping instead of one per distinct key.
GroupBy_PerRow(orig) ==
    [g \in 1..Len(orig) |-> [key |-> orig[g], indices |-> <<g - 1>>]]

\* data.groupby('original_image'): the groups in ascending key order, each
\* with its embedding_index column in row order.
GroupBy(orig) ==
    LET ks == SortedSeq({orig[i] : i \in 1..Len(orig)})
    IN  [g \in 1..Len(ks) |->
            [key |-> ks[g],
             indices |-> SeqOfSet({i - 1 : i \in {r \in 1..Len(orig) :
                                                   orig[r] = ks[g]}})]]

\* np.argmax: the first position holding the maximum.
RECURSIVE ArgMaxFrom(_, _, _)
ArgMaxFrom(a, best, j) ==
    IF j >= Len(a) THEN best
    ELSE IF Iloc(a, j) > Iloc(a, best)
         THEN ArgMaxFrom(a, j, j + 1)
         ELSE ArgMaxFrom(a, best, j + 1)

\* The last position holding the maximum instead of the first.
ArgMax_Last(a) ==
    CHOOSE b \in 0..(Len(a) - 1) :
        /\ \A j \in 0..(Len(a) - 1) : Iloc(a, j) <= Iloc(a, b)
        /\ \A j \in (b + 1)..(Len(a) - 1) : Iloc(a, j) < Iloc(a, b)

ArgMax(a) == ArgMaxFrom(a, 0, 1)

\* The first member of the group, whatever its norm.
BestIdx_First(emb, idxs) == Iloc(idxs, 0)

\* The last member of the group, whatever its norm.
BestIdx_LastMember(emb, idxs) == Iloc(idxs, Len(idxs) - 1)

\* The body of the loop over the groups: the position chosen for a group.
BestIdx(emb, idxs) ==
    LET norms == [j \in 1..Len(idxs) |-> NormSq(Iloc(emb, idxs[j]))]
    IN  Iloc(idxs, ArgMax(norms))

\* Step 6 as a whole: the selected (image file, embedding) pairs.
SelectorMapping(orig, emb) ==
    LET gs == GroupBy(orig)
    IN  {<<gs[g].key, Iloc(emb, BestIdx(emb, gs[g].indices))>> :
            g \in 1..Len(gs)}

SelInit ==
    /\ pc = "generated"
    /\ GenIdle
    /\ \E n \in 1..MaxRows :
        /\ original_image_files \in [1..n -> SelPool]
        /\ aug_embeddings \in [1..n -> SelVectors]
    /\ data_groups = <<>>
    /\ gpos = 0
    /\ selected_embeddings = <<>>
    /\ selected_image_files = <<>>

EvalIdle ==
    /\ image_files = <<>>
    /\ embeddings = <<>>
    /\ df = <<>>
    /\ index = <<>>
    /\ matches_images = <<>>
    /\ qpos = 0
    /\ query_image_name = <<>>
    /\ query_idx = -1
    /\ distances = <<>>
    /\ indices = <<>>
    /\ retrieved_indices = <<>>
    /\ retrieved_images = <<>>
    /\ num_matches_found = 0
    /\ total_available_matches = 0
    /\ match_accuracy = [num |-> 0, den |-> 1]
    /\ evaluation_results = <<>>
    /\ evaluation_dfs = <<>>
    /\ rim = [called |-> FALSE]

\* Step 6, before the loop: the DataFrame, its groups, the empty outputs.
CreateData ==
    /\ pc = "generated"
    /\ data_groups' = GroupBy(original_image_files)
    /\ gpos' = 0
    /\ selected_embeddings' = <<>>
    /\ selected_image_files' = <<>>
    /\ pc' = "grouping"
    /\ UNCHANGED <<original_image_files, aug_embeddings, genVars>>
    /\ UNCHANGED <<image_files, embeddings, df, index, matches_images, qpos,
                   query_image_name, query_idx, distances, indices, retrieved_indices,
                   retrieved_images, num_matches_found,
                   total_available_matches, match_accuracy,
                   evaluation_results, evaluation_dfs, rim>>
    /\ UNCHANGED auxVars

\* Step 6: one iteration of the loop over the groups.
SelectGroup ==
    /\ pc = "grouping"
    /\ gpos < Len(data_groups)
    /\ LET group == Iloc(data_groups, gpos)
           best_idx == BestIdx(aug_embeddings, group.indices)
       IN  /\ selected_embeddings' =
                 Append(selected_embeddings, Iloc(aug_embeddings, best_idx))
           /\ selected_image_files' = Append(selected_image_files, group.key)
    /\ gpos' = gpos + 1
    /\ UNCHANGED <<original_image_files, aug_embeddings, data_groups, genVars>>
    /\ UNCHANGED evalVars
    /\ UNCHANGED auxVars

\* Step 7: np.save of the selected embeddings and image files.
SaveEmbeddings ==
    /\ pc = "grouping"
    /\ gpos = Len(data_groups)
    /\ embeddings' = selected_embeddings
    /\ image_files' = selected_image_files
    /\ pc' = "saved"
    /\ UNCHANGED selVars
    /\ UNCHANGED <<df, index, matches_images, qpos, query_image_name,
                   query_idx, distances, indices, retrieved_indices, retrieved_images,
                   num_matches_found, total_available_matches,
                   match_accuracy, evaluation_results, evaluation_dfs,
                   rim>>
    /\ UNCHANGED auxVars

SelStart == SelInit /\ EvalIdle /\ AuxIdle

SelNext ==
    \/ CreateData
    \/ SelectGroup
    \/ SaveEmbeddings

SpecSel == SelStart /\ [][SelNext]_vars

-----------------------------------------------------------------------------
(* Properties of the Selector *)

\* The rows (0-based) of the mapping whose original image is key.
Members(key) ==
    {i \in 0..(Len(original_image_files) - 1) :
        Iloc(original_image_files, i) = key}

Originals == {original_image_files[i] : i \in 1..Len(original_image_files)}

\* The loop over the groups has ended.
SelectionDone ==
    pc \in {"grouping", "saved"} /\ gpos = Len(data_groups)

\* C8: the output holds exactly one embedding per distinct original-image
\* identifier of the Augmentation Mapping, none twice and none missing.
C8_OnePerOriginal ==
    /\ pc \in {"grouping", "saved"} =>
          /\ Len(selected_embeddings) = Len(selected_image_files)
          /\ \A i, j \in 1..Len(selected_image_files) :
                i # j => selected_image_files[i] # selected_image_files[j]
          /\ \A j \in 1..Len(selected_image_files) :
                selected_image_files[j] \in Originals
    /\ SelectionDone =>
          /\ {selected_image_files[j] : j \in 1..Len(selected_image_files)}
                = Originals
          /\ Len(selected_embeddings) = Cardinality(Originals)
    /\ pc = "saved" =>
          /\ image_files = selected_image_files
          /\ embeddings = selected_embeddings

\* C8 witness: a mapping of three rows over two originals has been selected
\* and saved.
C8_Witness ==
    /\ pc = "saved"
    /\ Len(original_image_files) = 3
    /\ Cardinality(Originals) = 2
    /\ Len(image_files) = 2

\* C9: the output vector of every group is a member of the group whose norm
\* is maximal in the group; for a singleton group it is the sole member.
C9_MaxNormMember ==
    pc \in {"grouping", "saved"} =>
        \A j \in 1..Len(selected_image_files) :
            LET ms == Members(selected_image_files[j])
                v == selected_embeddings[j]
            IN  /\ \E i \in ms : Iloc(aug_embeddings, i) = v
                /\ \A i \in ms :
                      Iloc(aug_embeddings, i)[1] * Iloc(aug_embeddings, i)[1]
                        + Iloc(aug_embeddings, i)[2] * Iloc(aug_embeddings, i)[2]
                      <= v[1] * v[1] + v[2] * v[2]
                /\ Cardinality(ms) = 1 =>
                      \A i \in ms : Iloc(aug_embeddings, i) = v

\* C9 witness: a group whose first member has a smaller norm than a later
\* one has been selected.
C9_Witness ==
    /\ SelectionDone
    /\ \E j \in 1..Len(selected_image_files) :
          \E a, b \in Members(selected_image_files[j]) :
              /\ a < b
              /\ Iloc(aug_embeddings, a) = <<0, 1>>
              /\ Iloc(aug_embeddings, b) = <<2, 0>>
              /\ selected_embeddings[j] = <<2, 0>>

\* The squared norm of row i of the augmented embeddings.
RowNormSq(i) ==
    Iloc(aug_embeddings, i)[1] * Iloc(aug_embeddings, i)[1]
      + Iloc(aug_embeddings, i)[2] * Iloc(aug_embeddings, i)[2]

\* C10: when several members of a group share the maximum norm, the
\* selected member is the one at the lowest mapping row.
C10_TieFirstSeen ==
    pc \in {"grouping", "saved"} =>
        \A j \in 1..Len(selected_image_files) :
            LET ms == Members(selected_image_files[j])
                top == {i \in ms : \A h \in ms : RowNormSq(h) <= RowNormSq(i)}
                first == CHOOSE i \in top : \A h \in top : i <= h
            IN  selected_embeddings[j] = Iloc(aug_embeddings, first)

\* C10 witness: two members of a group tie on the maximum norm with
\* different vectors, and the earlier one has been selected.
C10_Witness ==
    /\ SelectionDone
    /\ \E j \in 1..Len(selected_image_files) :
          \E a, b \in Members(selected_image_files[j]) :
              /\ a < b
              /\ RowNormSq(a) = RowNormSq(b)
              /\ Iloc(aug_embeddings, a) # Iloc(aug_embeddings, b)
              /\ \A h \in Members(selected_image_files[j]) :
                    RowNormSq(h) <= RowNormSq(a)
              /\ selected_embeddings[j] = Iloc(aug_embeddings, a)

-----------------------------------------------------------------------------
(* Cluster diagnostics: Steps 8 and 9 of Evaluation_DINO.ipynb and the      *)
(* K-Means of Step 5.3 of the comparison notebook.  The two cells read the  *)
(* embeddings alone; K-Means and the silhouette score are the scikit-learn  *)
(* library's, kept here by what the cells depend on: whether the fit raises *)
(* and the shape of the labels.                                             *)

MaxSamples == 1100     \* rows of the table handed to the diagnostics

\* A table of n rows cycling over three distinct vectors.
DiagTable(n) ==
    [i \in 1..n |-> IF i % 3 = 1 THEN <<1, 0>>
                    ELSE IF i % 3 = 2 THEN <<0, 1>> ELSE <<-1, 0>>]

\* min(10, len(embeddings) // 100)
NumClusters(emb) ==
    IF 10 <= Len(emb) \div 100 THEN 10 ELSE Len(emb) \div 100

\* num_clusters = 10 of Step 5.3.
CmpNumClusters == 10

\* KMeans(n_clusters=k).fit_predict(X) raises unless 1 <= k <= len(X).
KMeansFits(k, emb) == k >= 1 /\ k <= Len(emb)

\* The labels of a fit: one label in 0..k-1 per row.
FitPredict(k, emb) == [n_labels |-> Len(emb), n_clusters |-> k]

DiagInit ==
    /\ pc = "diag_loaded"
    /\ \E n \in 1..MaxSamples : embeddings = DiagTable(n)
    /\ image_files = <<>>
    /\ df = <<>>
    /\ index = <<>>
    /\ matches_images = <<>>
    /\ qpos = 0
    /\ query_image_name = <<>>
    /\ query_idx = -1
    /\ distances = <<>>
    /\ indices = <<>>
    /\ retrieved_indices = <<>>
    /\ retrieved_images = <<>>
    /\ num_matches_found = 0
    /\ total_available_matches = 0
    /\ match_accuracy = [num |-> 0, den |-> 1]
    /\ evaluation_results = <<>>
    /\ evaluation_dfs = <<>>
    /\ rim = [called |-> FALSE]

\* Step 8: Cluster Embeddings.  df['cluster_label'] is the array
\* cluster_labels.
ClusterEmbeddings ==
    /\ pc \in {"diag_loaded", "retrieved"}
    /\ num_clusters' = NumClusters(embeddings)
    /\ IF KMeansFits(num_clusters', embeddings)
       THEN /\ cluster_labels' = FitPredict(num_clusters', embeddings)
            /\ pc' = "clustered"
       ELSE /\ UNCHANGED cluster_labels
            /\ pc' = "cluster_failed"
    /\ UNCHANGED <<image_files, embeddings, df, index, matches_images, qpos,
                   query_image_name, query_idx, distances, indices,
                   retrieved_indices, retrieved_images, num_matches_found,
                   total_available_matches, match_accuracy,
                   evaluation_results, evaluation_dfs, rim>>
    /\ UNCHANGED <<sil_score, aggVars, clsVars, selVars>>

\* Step 9: Compute Unsupervised Evaluation Metrics.
ComputeSilhouette ==
    /\ pc = "clustered"
    /\ sil_score' = IF num_clusters > 1 THEN "computed" ELSE "skipped"
    /\ pc' = "diagnosed"
    /\ UNCHANGED <<num_clusters, cluster_labels, aggVars, clsVars, selVars>>
    /\ UNCHANGED <<image_files, embeddings, df, index, matches_images, qpos,
                   query_image_name, query_idx, distances, indices,
                   retrieved_indices, retrieved_images, num_matches_found,
                   total_available_matches, match_accuracy,
                   evaluation_results, evaluation_dfs, rim>>

\* Step 5.3 of the comparison notebook: K-Means for one model.
CmpClusterEmbeddings ==
    /\ pc = "diag_loaded"
    /\ num_clusters' = CmpNumClusters
    /\ IF KMeansFits(num_clusters', embeddings)
       THEN /\ cluster_labels' = FitPredict(num_clusters', embeddings)
            /\ pc' = "cmp_clustered"
       ELSE /\ UNCHANGED cluster_labels
            /\ pc' = "cluster_failed"
    /\ UNCHANGED <<image_files, embeddings, df, index, matches_images, qpos,
                   query_image_name, query_idx, distances, indices,
                   retrieved_indices, retrieved_images, num_matches_found,
                   total_available_matches, match_accuracy,
                   evaluation_results, evaluation_dfs, rim>>
    /\ UNCHANGED <<sil_score, aggVars, clsVars, selVars>>

DiagStart == DiagInit /\ SelIdle /\ AuxIdle

DiagNext ==
    \/ ClusterEmbeddings
    \/ ComputeSilhouette
    \/ CmpClusterEmbeddings

SpecDiag == DiagStart /\ [][DiagNext]_vars

-----------------------------------------------------------------------------
(* The evaluation and comparison sessions: the cells in notebook order, the *)
(* Step 11 cell run up to MaxRuns times.                                    *)

Next ==
    \/ PrepareDataset
    \/ BuildIndex
    \/ PerformRetrievalNone
    \/ PerformRetrieval
    \/ ClusterEmbeddings
    \/ StartEvaluation
    \/ EvaluateQuery
    \/ FinishEvaluation
    \/ PrepareComparison
    \/ SelectQuery
    \/ RetrieveImagesForModel

Spec == Init /\ [][Next]_vars

-----------------------------------------------------------------------------
(* Properties of the diagnostics *)

Max(a, b) == IF a >= b THEN a ELSE b

\* C12: num_clusters = max(1, min(10, N // 100)) for every table size N, so
\* num_clusters is in 1..10, and is 1, not 0, when N < 100.
C12_NumClustersAtLeastOne ==
    num_clusters # -1 =>
        /\ num_clusters = Max(1, Min(10, Len(embeddings) \div 100))
        /\ num_clusters \in 1..10

\* C13: the silhouette score is computed exactly when num_clusters > 1, and
\* for every table size with num_clusters <= 1 the diagnostics complete
\* without an error, the score left out.
C13_SilhouetteIffSeveralClusters ==
    /\ pc = "diagnosed" => (sil_score = "computed" <=> num_clusters > 1)
    /\ pc = "diagnosed" /\ num_clusters <= 1 => sil_score = "skipped"
    /\ (num_clusters # -1 /\ num_clusters <= 1) => pc # "cluster_failed"

-----------------------------------------------------------------------------
(* The comparison notebook, Steps 2 and 3: the per-model evaluation tables  *)
(* and the master evaluation DataFrame.                                     *)

MaxEvalRows == 2       \* rows of a per-model evaluation table

\* models = ['PLIP', 'UNI', 'DINO', 'CLIP']
Models == <<"PLIP", "UNI", "DINO", "CLIP">>

ModelSet == {Models[i] : i \in 1..Len(Models)}

\* The value pandas leaves where a column has no entry for a row label.
NaN == [nan |-> TRUE]

AggQueries == {F_100_01, F_100_02}

\* The rows an evaluation_results_<model>.csv can hold for these queries.
EvalRows ==
    {[QueriedImage |-> q,
      NumberOfMatchesFound |-> f,
      TotalAvailableMatches |-> 2,
      MatchAccuracy |-> Accuracy(f, 2)] : q \in AggQueries, f \in {1, 2}}

\* pd.read_csv of one model's file: a table with one row per query.
EvalTables ==
    UNION {{t \in [1..n -> EvalRows] :
               \A i, j \in 1..n :
                   i # j => t[i].QueriedImage # t[j].QueriedImage} :
           n \in 1..MaxEvalRows}

\* master_df[c] = eval_df[col] at the master row labelled r - 1: a Series is
\* assigned by row label, and both tables carry the labels 0..n-1 of
\* read_csv.
ColumnAt(eval_df, r, col) ==
    IF r <= Len(eval_df) THEN eval_df[r][col] ELSE NaN

\* f with the key k set to v.
SetKey(f, k, v) ==
    [m \in (DOMAIN f) \cup {k} |-> IF m = k THEN v ELSE f[m]]

AggInit ==
    /\ pc = "agg_loaded"
    /\ model_data \in [ModelSet -> EvalTables]
    /\ master_df = <<>>
    /\ mpos = 0

\* Step 3, before the loop: the master DataFrame starts from the PLIP table.
CreateMaster ==
    /\ pc = "agg_loaded"
    /\ master_df' =
          [r \in 1..Len(model_data["PLIP"]) |->
              [QueriedImage |-> model_data["PLIP"][r].QueriedImage,
               TotalAvailableMatches |->
                   model_data["PLIP"][r].TotalAvailableMatches,
               MatchesFound |-> <<>>,
               MatchAccuracy |-> <<>>]]
    /\ mpos' = 0
    /\ pc' = "agg_merging"
    /\ UNCHANGED <<model_data, diagVars, clsVars, selVars>>
    /\ UNCHANGED <<image_files, embeddings, df, index, matches_images, qpos,
                   query_image_name, query_idx, distances, indices,
                   retrieved_indices, retrieved_images, num_matches_found,
                   total_available_matches, match_accuracy,
                   evaluation_results, evaluation_dfs, rim>>

\* Step 3: one iteration of the loop over the models.
AddModelColumns ==
    /\ pc = "agg_merging"
    /\ mpos < Len(Models)
    /\ LET model == Iloc(Models, mpos)
           eval_df == model_data[model]
       IN  master_df' =
              [r \in 1..Len(master_df) |->
                  [master_df[r] EXCEPT
                      !.MatchesFound =
                          SetKey(@, model,
                                 ColumnAt(eval_df, r, "NumberOfMatchesFound")),
                      !.MatchAccuracy =
                          SetKey(@, model,
                                 ColumnAt(eval_df, r, "MatchAccuracy"))]]
    /\ mpos' = mpos + 1
    /\ UNCHANGED <<model_data, diagVars, clsVars, selVars>>
    /\ UNCHANGED evalVars

\* Step 3, after the loop: the master DataFrame is displayed.
DisplayMaster ==
    /\ pc = "agg_merging"
    /\ mpos = Len(Models)
    /\ pc' = "agg_done"
    /\ UNCHANGED <<aggVars, diagVars, clsVars, selVars>>
    /\ UNCHANGED <<image_files, embeddings, df, index, matches_images, qpos,
                   query_image_name, query_idx, distances, indices,
                   retrieved_indices, retrieved_images, num_matches_found,
                   total_available_matches, match_accuracy,
                   evaluation_results, evaluation_dfs, rim>>

AggStart == AggInit /\ EvalIdle /\ SelIdle /\ DiagIdle /\ ClsIdle

AggNext ==
    \/ CreateMaster
    \/ AddModelColumns
    \/ DisplayMaster

SpecAgg == AggStart /\ [][AggNext]_vars

-----------------------------------------------------------------------------
(* Properties of the aggregation *)

\* C14: every row of the master table holds, for every model, the match
\* count and the accuracy that the model's own table gives for the row's
\* Queried Image, whatever the order and the queries of that table.
C14_MasterAlignedByQuery ==
    \A r \in 1..Len(master_df) :
        \A m \in DOMAIN master_df[r].MatchesFound :
            \A j \in 1..Len(model_data[m]) :
                model_data[m][j].QueriedImage = master_df[r].QueriedImage =>
                    /\ master_df[r].MatchesFound[m] =
                          model_data[m][j].NumberOfMatchesFound
                    /\ master_df[r].MatchAccuracy[m] =
                          model_data[m][j].MatchAccuracy

-----------------------------------------------------------------------------
(* The classification of an identifier: determine_source (Step 4) and the   *)
(* query prefix of evaluate_retrieval.                                      *)

ClsPrefixes ==
    {<<>>, <<"0","4">>, <<"0","0","4">>, <<"1","0","0","1">>,
     <<"1","0","0","1","2">>, <<"0","a","4">>,
     <<"a","1","b","2","c","3">>}

ClsSeparators == {<<"_">>, <<"-">>, <<>>}

ClsVariants == {<<>>, <<"3">>, <<"0","3">>, <<"0","0","3">>, <<"0","x">>}

ClsExtensions ==
    {DotJpg, <<".","p","n","g">>, <<"x","j","p","g">>,
     <<".","j","p","g","x">>}

\* File names put together from these parts.
ClsPool ==
    {p \o s \o v \o e : p \in ClsPrefixes, s \in ClsSeparators,
                        v \in ClsVariants, e \in ClsExtensions}

ClsInit ==
    /\ pc = "cls_input"
    /\ classified_name \in ClsPool
    /\ classified_source = "unset"
    /\ classified_prefix = <<>>
    /\ classified_match_set = <<>>

\* Step 4: df['source'] = df['image_file'].apply(determine_source), for one
\* image file.
DetermineSource ==
    /\ pc = "cls_input"
    /\ classified_source' = determine_source(classified_name)
    /\ pc' = "cls_labelled"
    /\ UNCHANGED <<classified_name, classified_prefix, classified_match_set>>
    /\ UNCHANGED <<diagVars, aggVars, selVars>>
    /\ UNCHANGED <<image_files, embeddings, df, index, matches_images, qpos,
                   query_image_name, query_idx, distances, indices,
                   retrieved_indices, retrieved_images, num_matches_found,
                   total_available_matches, match_accuracy,
                   evaluation_results, evaluation_dfs, rim>>

\* evaluate_retrieval: the prefix taken from a query, which is an image of
\* the matches set.
QueryPrefix ==
    /\ pc = "cls_labelled"
    /\ classified_source = "matches"
    /\ classified_prefix' = SplitFirst(classified_name)
    /\ pc' = "cls_prefixed"
    /\ UNCHANGED <<classified_name, classified_source, classified_match_set>>
    /\ UNCHANGED <<diagVars, aggVars, selVars>>
    /\ UNCHANGED <<image_files, embeddings, df, index, matches_images, qpos,
                   query_image_name, query_idx, distances, indices,
                   retrieved_indices, retrieved_images, num_matches_found,
                   total_available_matches, match_accuracy,
                   evaluation_results, evaluation_dfs, rim>>

\* Step 5.1 of the comparison notebook:
\* df['match_set'] = df['image_file'].apply(get_match_set), for the same
\* image file.
GetMatchSet ==
    /\ pc \in {"cls_labelled", "cls_prefixed"}
    /\ classified_match_set = <<>>
    /\ classified_match_set' = get_match_set(classified_name)
    /\ UNCHANGED <<pc, classified_name, classified_source, classified_prefix>>
    /\ UNCHANGED <<diagVars, aggVars, selVars>>
    /\ UNCHANGED <<image_files, embeddings, df, index, matches_images, qpos,
                   query_image_name, query_idx, distances, indices,
                   retrieved_indices, retrieved_images, num_matches_found,
                   total_available_matches, match_accuracy,
                   evaluation_results, evaluation_dfs, rim>>

ClsStart == ClsInit /\ EvalIdle /\ SelIdle /\ DiagIdle /\ AggIdle

ClsNext ==
    \/ DetermineSource
    \/ QueryPrefix
    \/ GetMatchSet

SpecCls == ClsStart /\ [][ClsNext]_vars

-----------------------------------------------------------------------------
(* Properties of the classification *)

\* x is g, an underscore, v and ".jpg", with g a run of n digits and v a run
\* of exactly two digits.
HasForm(x, n) ==
    /\ Len(x) = n + 1 + 2 + 4
    /\ \A i \in 1..n : x[i] \in Digits
    /\ x[n + 1] = "_"
    /\ x[n + 2] \in Digits /\ x[n + 3] \in Digits
    /\ <<x[n + 4], x[n + 5], x[n + 6], x[n + 7]>> = <<".", "j", "p", "g">>

-----------------------------------------------------------------------------
(* Properties of the evaluation session: scores and the evaluation table *)

\* Every sibling of the query is among the retrieved rows.
AllSiblingsRetrieved ==
    \A p \in Siblings(image_files, query_image_name) :
        \E j \in 1..Len(retrieved_images) :
            retrieved_images[j].image_file = image_files[p]

\* C18: when every other member of the query's match set is among the
\* retrieved neighbors, num_matches_found and total_available_matches both
\* equal the number of siblings (group size minus one) and match_accuracy
\* is 1.
C18_AllSiblingsFoundScoresOne ==
    (/\ EvalScored
     /\ Siblings(image_files, query_image_name) # {}
     /\ AllSiblingsRetrieved) =>
        /\ num_matches_found =
              Cardinality(Siblings(image_files, query_image_name))
        /\ total_available_matches =
              Cardinality(Siblings(image_files, query_image_name))
        /\ match_accuracy.num = match_accuracy.den

\* C19: match_accuracy is 0 when total_available_matches is 0 and
\* num_matches_found / total_available_matches otherwise; no quotient has
\* the denominator 0.
C19_AccuracyZeroWithoutMatches ==
    /\ EvalScored =>
          /\ match_accuracy.den # 0
          /\ total_available_matches = 0 => match_accuracy.num = 0
          /\ total_available_matches # 0 =>
                match_accuracy.num * total_available_matches
                    = num_matches_found * match_accuracy.den
    /\ CmpScored =>
          /\ rim.match_accuracy.den # 0
          /\ rim.total_available_matches = 0 => rim.match_accuracy.num = 0
          /\ rim.total_available_matches # 0 =>
                rim.match_accuracy.num * rim.total_available_matches
                    = rim.num_matches_found * rim.match_accuracy.den

\* C19 witness: a query that is alone in its match set has been scored 0
\* although a retrieved image was counted as a match.
C19_Witness ==
    /\ CmpScored
    /\ rim.total_available_matches = 0
    /\ rim.num_matches_found > 0
    /\ rim.match_accuracy.num = 0

\* The images of the table that are match-set images, in table order.
MatchSetFiles ==
    LET ps == SeqOfSet({p \in 1..Len(image_files) :
                           \/ HasForm(image_files[p], 3)
                           \/ HasForm(image_files[p], 4)})
    IN  [j \in 1..Len(ps) |-> image_files[ps[j]]]

\* C20: the evaluation table has exactly one row (query, matches found,
\* matches available, accuracy) per distinct match-set image of the table,
\* in the order of the query list, and no row for an unlabeled image.
C20_OneRowPerMatchSetQuery ==
    /\ pc \in {"evaluating", "done"} =>
          /\ Len(evaluation_results) = qpos
          /\ \A j \in 1..Len(evaluation_results) :
                /\ DOMAIN evaluation_results[j] =
                      {"QueriedImage", "NumberOfMatchesFound",
                       "TotalAvailableMatches", "MatchAccuracy"}
                /\ j <= Len(MatchSetFiles)
                /\ evaluation_results[j].QueriedImage = MatchSetFiles[j]
    /\ pc = "done" =>
          [j \in 1..Len(evaluation_results) |->
              evaluation_results[j].QueriedImage] = MatchSetFiles

\* C20 witness: a table with an unlabeled image and two match-set images has
\* been evaluated into two rows.
C20_Witness ==
    /\ pc = "done"
    /\ Len(evaluation_results) = 2
    /\ Len(image_files) = 3
    /\ \E p \in 1..Len(image_files) :
          ~(HasForm(image_files[p], 3) \/ HasForm(image_files[p], 4))

-----------------------------------------------------------------------------
(* The generation notebooks, Step 5: Generate Embeddings.  A row of the     *)
(* mapping carries the original image it was augmented from and, in place   *)
(* of the augmented image, the vector the model returns for it.             *)

MaxBatch == 2          \* batch sizes tried besides the notebook's own

\* batch_size = 168  # Adjust based on your GPU memory
BatchSize == 168

BatchSizes == (1..MaxBatch) \cup {BatchSize}

GenPool == {F_100_01, F_1001_01}

\* Outputs of the model, before normalization.
RawOutputs == {<<1, 0>>, <<1, 1>>, <<2, 0>>}

\* The arrays hold numbers of finite precision: a component of a stored
\* vector is a whole number of steps of 1/Precision.
Precision == 10

\* x / sqrt(n2), rounded to the nearest step, for x >= 0 and n2 > 0.
QuantizeAbs(x, n2) ==
    CHOOSE c \in 0..Precision :
        /\ c = 0 \/ (2 * c - 1) * (2 * c - 1) * n2
                        <= 4 * Precision * Precision * x * x
        /\ 4 * Precision * Precision * x * x < (2 * c + 1) * (2 * c + 1) * n2

Quantize(x, n2) ==
    IF x >= 0 THEN QuantizeAbs(x, n2) ELSE 0 - QuantizeAbs(0 - x, n2)

\* The model output stored as it is.
Normalize_Raw(raw) == raw

\* embedding / np.linalg.norm(embedding)
Normalize(raw) ==
    <<Quantize(raw[1], NormSq(raw)), Quantize(raw[2], NormSq(raw))>>

\* Only the batches that are full.
HasNextBatch_FullOnly(start, size, total) == start + size <= total

\* for start_idx in range(0, total_images, batch_size)
HasNextBatch(start, size, total) == start < total

GenInit ==
    /\ pc = "gen_start"
    /\ \E n \in 1..MaxRows :
          augmented_df \in [1..n -> [original_image : GenPool,
                                     model_output : RawOutputs]]
    /\ batch_size \in BatchSizes
    /\ start_idx = 0
    /\ original_image_files = <<>>
    /\ aug_embeddings = <<>>
    /\ data_groups = <<>>
    /\ gpos = 0
    /\ selected_embeddings = <<>>
    /\ selected_image_files = <<>>

\* Step 5: one iteration of the loop over the batches.
GenerateBatch ==
    /\ pc = "gen_start"
    /\ HasNextBatch(start_idx, batch_size, Len(augmented_df))
    /\ LET end_idx == Min(start_idx + batch_size, Len(augmented_df))
           batch == SubSeq(augmented_df, start_idx + 1, end_idx)
       IN  /\ aug_embeddings' = aug_embeddings \o
                 [j \in 1..Len(batch) |-> Normalize(batch[j].model_output)]
           /\ original_image_files' = original_image_files \o
                 [j \in 1..Len(batch) |-> batch[j].original_image]
    /\ start_idx' = start_idx + batch_size
    /\ UNCHANGED <<pc, augmented_df, batch_size, data_groups, gpos,
                   selected_embeddings, selected_image_files>>
    /\ UNCHANGED <<image_files, embeddings, df, index, matches_images, qpos,
                   query_image_name, query_idx, distances, indices,
                   retrieved_indices, retrieved_images, num_matches_found,
                   total_available_matches, match_accuracy,
                   evaluation_results, evaluation_dfs, rim>>
    /\ UNCHANGED auxVars

\* Step 5, after the loop: embeddings = np.vstack(embeddings).
StackEmbeddings ==
    /\ pc = "gen_start"
    /\ ~HasNextBatch(start_idx, batch_size, Len(augmented_df))
    /\ pc' = "generated"
    /\ UNCHANGED selVars
    /\ UNCHANGED <<image_files, embeddings, df, index, matches_images, qpos,
                   query_image_name, query_idx, distances, indices,
                   retrieved_indices, retrieved_images, num_matches_found,
                   total_available_matches, match_accuracy,
                   evaluation_results, evaluation_dfs, rim>>
    /\ UNCHANGED auxVars

GenStart == GenInit /\ EvalIdle /\ AuxIdle

GenNext ==
    \/ GenerateBatch
    \/ StackEmbeddings
    \/ CreateData
    \/ SelectGroup
    \/ SaveEmbeddings

SpecGen == GenStart /\ [][GenNext]_vars

-----------------------------------------------------------------------------
(* Properties of the generation *)

\* The rows of the mapping whose original image is key, as positions of the
\* embeddings array.
GroupRows(key) ==
    {i \in 1..Len(original_image_files) : original_image_files[i] = key}

\* C22: identifiers and vectors stay co-indexed.  While and after the batches
\* are generated, embedding i is the normalized output of mapping row i and
\* original image i is that row's original image, with nothing missing after
\* the last, possibly partial, batch; after the selection the two outputs
\* have the same length and selected embedding j is the embedding of the
\* largest norm among the rows of selected image file j.
C22_IdentifiersAndVectorsCoIndexed ==
    /\ Len(aug_embeddings) = Len(original_image_files)
    /\ pc = "gen_start" =>
          Len(aug_embeddings) = Min(start_idx, Len(augmented_df))
    /\ pc \in {"generated", "grouping", "saved"} =>
          Len(aug_embeddings) = Len(augmented_df)
    /\ \A i \in 1..Min(Len(aug_embeddings), Len(original_image_files)) :
          i <= Len(augmented_df) =>
              /\ original_image_files[i] = augmented_df[i].original_image
              /\ aug_embeddings[i] = Normalize(augmented_df[i].model_output)
    /\ Len(selected_embeddings) = Len(selected_image_files)
    /\ \A j \in 1..Min(Len(selected_embeddings), Len(selected_image_files)) :
          \E i \in GroupRows(selected_image_files[j]) :
              /\ i <= Len(aug_embeddings)
              /\ selected_embeddings[j] = aug_embeddings[i]
              /\ \A r \in GroupRows(selected_image_files[j]) :
                    r <= Len(aug_embeddings) =>
                        NormSq(aug_embeddings[r]) <= NormSq(aug_embeddings[i])

\* C22 witness: three rows went through a full batch of two and a final
\* batch of one, and two representatives were saved.
C22_Witness ==
    /\ pc = "saved"
    /\ batch_size = 2
    /\ Len(augmented_df) = 3
    /\ Len(aug_embeddings) = 3
    /\ Len(selected_image_files) = 2

-----------------------------------------------------------------------------
(* Properties of repeated evaluation and of the index lifecycle *)

\* C23: running the Step 11 cell again on the same index and the same query
\* list yields a table identical to the one of the run before.
C23_EvaluationIdempotent ==
    \A a, b \in 1..Len(evaluation_dfs) : evaluation_dfs[a] = evaluation_dfs[b]

\* C23 witness: the cell has run twice over a list of at least two queries.
C23_Witness ==
    /\ pc = "done"
    /\ Len(evaluation_dfs) = 2
    /\ Len(evaluation_dfs[2]) >= 2

\* A step of the evaluation session that issues index.search: the query of
\* Step 7 or an iteration of the Step 11 loop that found its query.
SearchStep ==
    \/ pc = "indexed" /\ pc' = "retrieved" /\ query_image_name' # <<>>
    \/ /\ pc = "evaluating"
       /\ qpos' = qpos + 1
       /\ Len(evaluation_results') = Len(evaluation_results) + 1

\* The cells of the evaluation session that follow Step 5 have started.
IndexBuilt ==
    pc \in {"indexed", "retrieved", "clustered", "cluster_failed",
            "diagnosed", "evaluating", "done"}

-----------------------------------------------------------------------------
(* The Selector under a reordering of the mapping *)

\* The orders in which n rows can be listed.
RowOrders(n) == {f \in [1..n -> 1..n] : \A i, j \in 1..n : i # j => f[i] # f[j]}

\* The rows of s listed in the order f.
Reordered(s, f) == [i \in 1..Len(s) |-> s[f[i]]]

\* The selected pairs of the run.
SavedMapping ==
    {<<selected_image_files[j], selected_embeddings[j]>> :
        j \in 1..Min(Len(selected_image_files), Len(selected_embeddings))}

\* The vectors of the largest norm among the rows of key.
MaxNormVectors(key) ==
    {aug_embeddings[i] : i \in {r \in GroupRows(key) :
        \A q \in GroupRows(key) :
            NormSq(aug_embeddings[q]) <= NormSq(aug_embeddings[r])}}

\* C26 as stated: listing the mapping rows, and the vectors alongside, in any
\* other order yields the same identifier-to-vector mapping.
C26_SameMappingInAnyRowOrder ==
    pc = "saved" =>
        \A f \in RowOrders(Len(original_image_files)) :
            SelectorMapping(Reordered(original_image_files, f),
                            Reordered(aug_embeddings, f)) = SavedMapping

\* C26, amended: in any other row order the Selector yields the same
\* identifiers, and the same vector for every identifier whose largest norm
\* belongs to one vector only.
C26_SameMappingUnlessNormTie ==
    pc = "saved" =>
        \A f \in RowOrders(Len(original_image_files)) :
            LET other == SelectorMapping(Reordered(original_image_files, f),
                                         Reordered(aug_embeddings, f))
            IN  /\ {m[1] : m \in other} = {m[1] : m \in SavedMapping}
                /\ \A m \in SavedMapping :
                      Cardinality(MaxNormVectors(m[1])) = 1 => m \in other

\* C26 witness: a group of two rows with different vectors, one of them of
\* the larger norm, was selected from.
C26_Witness ==
    /\ pc = "saved"
    /\ \E m \in SavedMapping :
          /\ Cardinality(MaxNormVectors(m[1])) = 1
          /\ \E i \in GroupRows(m[1]) : aug_embeddings[i] # m[2]

-----------------------------------------------------------------------------
(* Properties of the lookups and of the two evaluators and classifiers *)

\* C27: every position that a search returned and that is used to look up a
\* row or an image file lies in 0..N-1, and no position occurs twice in one
\* retrieved set, whatever N >= 1 and k are; the padding label -1 of a
\* search with k > N is never looked up.
C27_LookupPositionsValid ==
    /\ LoopSearched =>
          /\ \A j \in 1..Len(retrieved_indices) :
                retrieved_indices[j] \in 0..(Len(image_files) - 1)
          /\ \A i, j \in 1..Len(retrieved_indices) :
                i # j => retrieved_indices[i] # retrieved_indices[j]
    /\ CmpScored =>
          /\ \A j \in 1..Len(rim.retrieved_indices) :
                rim.retrieved_indices[j] \in 0..(Len(image_files) - 1)
          /\ \A i, j \in 1..Len(rim.retrieved_indices) :
                i # j => rim.retrieved_indices[i] # rim.retrieved_indices[j]

\* C28: for the same table, query and k, evaluate_retrieval over the top-k
\* search result and retrieve_images_for_model give the same match_accuracy.
C28_EvaluatorsAgree ==
    CmpScored =>
        LET d == MakeDf(image_files)
            query_indices == QueryIndices(d, query_image_name)
        IN  query_indices # <<>> =>
            LET res == IndexSearch(embeddings,
                                   Iloc(embeddings, query_indices[1]),
                                   rim.top_k)
                ev == evaluate_retrieval(d, query_image_name,
                                         Rows(d, Labels(res)))
            IN  ev.match_accuracy.num * rim.match_accuracy.den
                    = rim.match_accuracy.num * ev.match_accuracy.den

\* C29: determine_source and get_match_set agree on every identifier: one
\* says 'matches' exactly when the other does not say 'pubmed', and the
\* group it then returns is the text before the first underscore.
C29_ClassifiersAgree ==
    (classified_source # "unset" /\ classified_match_set # <<>>) =>
        /\ classified_source = "matches" <=> classified_match_set # Pubmed
        /\ classified_source = "matches" =>
              classified_match_set = SplitFirst(classified_name)

-----------------------------------------------------------------------------
(* The Selector over vectors normalized at creation *)

\* The first row of the mapping whose original image is key.
FirstRow(key) ==
    CHOOSE i \in GroupRows(key) : \A r \in GroupRows(key) : i <= r

\* The first row among those of key whose recomputed norm is the largest.
FirstOfLargestNorm(key) ==
    CHOOSE i \in GroupRows(key) :
        /\ \A r \in GroupRows(key) :
              NormSq(aug_embeddings[r]) <= NormSq(aug_embeddings[i])
        /\ \A r \in GroupRows(key) :
              NormSq(aug_embeddings[r]) = NormSq(aug_embeddings[i]) => i <= r

\* The norm of v is one, up to half a step of precision in each component.
UnitUpToRounding(v) ==
    /\ (Precision - 1) * (Precision - 1) < NormSq(v)
    /\ NormSq(v) < (Precision + 1) * (Precision + 1)

\* C30 as stated: the Selector runs on vectors normalized at creation, so
\* the norms within a group are all equal and the representative is always
\* the group's first variant in mapping row order.
C30_FirstVariantAlwaysChosen ==
    pc \in {"grouping", "saved"} =>
        /\ \A i \in 1..Len(aug_embeddings) :
              \A r \in GroupRows(original_image_files[i]) :
                  NormSq(aug_embeddings[r]) = NormSq(aug_embeddings[i])
        /\ \A j \in 1..Len(selected_image_files) :
              GroupRows(selected_image_files[j]) # {} =>
                  selected_embeddings[j] =
                      aug_embeddings[FirstRow(selected_image_files[j])]

\* C30, amended: the Selector runs on vectors normalized at creation, whose
\* norms are one only up to rounding; the representative is the first row,
\* in mapping order, among the rows of the group with the largest recomputed
\* norm, and it is the group's first variant when those norms are all equal.
C30_FirstOfLargestComputedNorm ==
    pc \in {"grouping", "saved"} =>
        /\ \A i \in 1..Len(aug_embeddings) :
              UnitUpToRounding(aug_embeddings[i])
        /\ \A j \in 1..Len(selected_image_files) :
              GroupRows(selected_image_files[j]) # {} =>
                  LET key == selected_image_files[j]
                  IN  /\ selected_embeddings[j] =
                            aug_embeddings[FirstOfLargestNorm(key)]
                      /\ (\A q, r \in GroupRows(key) :
                              NormSq(aug_embeddings[q])
                                  = NormSq(aug_embeddings[r])) =>
                            selected_embeddings[j] =
                                aug_embeddings[FirstRow(key)]

\* C30 witness: a representative was saved that is not the vector of its
\* group's first variant.
C30_Witness ==
    /\ pc = "saved"
    /\ \E j \in 1..Len(selected_image_files) :
          /\ GroupRows(selected_image_files[j]) # {}
          /\ selected_embeddings[j] #
                aug_embeddings[FirstRow(selected_image_files[j])]

=============================================================================
